---- MODULE Spec2Model ----
(***************************************************************************)
(* LimerickDetector (limerick.py): syllable counting, rhyme detection by   *)
(* phoneme-suffix matching, punctuation filtering and the limerick rule    *)
(* engine.                                                                 *)
(*                                                                         *)
(* Representation.  A Python string is a sequence of one-character         *)
(* strings, so that indexing, substring tests and regular expressions are  *)
(* computed and not assumed.  A phoneme is such a string ("AH0" is         *)
(* <<"A","H","0">>), a pronunciation is a sequence of phonemes, and a      *)
(* dictionary entry is a non-empty sequence of non-empty pronunciations    *)
(* (the shape of nltk.corpus.cmudict.dict()).  The dictionary is a         *)
(* function from the words it knows to their entries; dict.get is Get,     *)
(* whose result is <<>> for None and <<entry>> otherwise.                  *)
(*                                                                         *)
(* A call's outcome is a record [exc, val]: exc is "" for a normal return  *)
(* of val, and the exception's class name when the call raises.            *)
(***************************************************************************)
EXTENDS Integers, Sequences, FiniteSets

VARIABLES
    pronunciations,  \* self._pronunciations, read-only after __init__
    input,           \* the argument(s) of the call under way
    pc,              \* the call that comes next, or "done"
    output           \* the outcomes of the calls made so far, in order

vars == <<pronunciations, input, pc, output>>

\* ------------------------------------------------------------------ bounds

\* Largest number of phonemes in one dictionary entry, over all its
\* pronunciations together.
MaxPhones == 3

\* Longest word handed to num_syllables / guess_syllables.
MaxWordLen == 3

\* Longest token list handed to remove_punctuations.
MaxTokens == 3

\* Largest number of lines of a text handed to the line-count gate.
MaxLines == 7

\* Largest number of filler words before a poem line's last word.
MaxFill == 2

\* ------------------------------------------------------- program constants

\* if num_of_lines != 5
NumLines == 5

\* return 1 (no entry in the dictionary)
DefaultSyllables == 1

\* [t < 4 for t in syllable_count]
MinSyllables == 4

\* (a_syllable_max - a_syllable_min) > 2, abs(...) > 2
MaxSpread == 2

\* ---------------------------------------------------------------- outcomes

Return(v) == [exc |-> "", val |-> v]

Raise(e) == [exc |-> e, val |-> FALSE]

\* ------------------------------------------------------------ Python idioms

\* s[i:] on a sequence, i a 0-based index.
SliceFrom(s, i) == SubSeq(s, i + 1, Len(s))

\* Python's (w in s) on two strings: w is a contiguous substring of s.
InStr(w, s) ==
    \E i \in 0..(Len(s) - Len(w)) : SubSeq(s, i + 1, i + Len(w)) = w

\* dict.get(word): None is <<>>, an entry e is <<e>>.
Get(d, word) == IF word \in DOMAIN d THEN <<d[word]>> ELSE <<>>

\* The 7-bit characters the dictionary's phoneme symbols are made of.
AsciiChars ==
    {"A", "E", "I", "O", "U", "H", "Y", "R", "T", "L", "P", "B", "N", "K",
     "0", "1", "2"}

\* phoneme.encode('ascii', 'ignore'): the characters outside ASCII are dropped.
IsAscii(c) == c \in AsciiChars

AsciiEncode(phoneme) == SelectSeq(phoneme, IsAscii)

\* phoneme[0] in 'AEIOU', after the encoding.
IsVowelPhoneme(phoneme) ==
    AsciiEncode(phoneme)[1] \in {"A", "E", "I", "O", "U"}

\* ---------------------------------------------------------- guess_syllables

Vowels == {"a", "e", "i", "o", "u"}

\* str.lower(), one character.
LowerChar(c) ==
    CASE c = "A" -> "a"
      [] c = "B" -> "b"
      [] c = "E" -> "e"
      [] c = "L" -> "l"
      [] c = "Y" -> "y"
      [] OTHER -> c

Lower(word) == [i \in 1..Len(word) |-> LowerChar(word[i])]

\* len(re.findall(r'[aeiou]+', word)): the maximal runs of vowel letters.
VowelRuns(word) ==
    Cardinality({i \in 1..Len(word) :
        word[i] \in Vowels /\ (i = 1 \/ word[i - 1] \notin Vowels)})

\* re.search(r'[^aeioul]e$', word, re.M|re.I) on a word without line breaks.
SilentE(word) ==
    /\ Len(word) >= 2
    /\ word[Len(word)] = "e"
    /\ word[Len(word) - 1] \notin (Vowels \cup {"l"})

\* len(re.findall(r'[^aeiou]y.*', word)): .* runs to the end of the word, so
\* the matches cannot overlap and there is at most one.
ConsonantY(word) ==
    IF \E i \in 1..(Len(word) - 1) : word[i] \notin Vowels /\ word[i + 1] = "y"
    THEN 1 ELSE 0

Max(a, b) == IF a >= b THEN a ELSE b

GuessSyllables(w) ==
    LET word == Lower(w)
        count == VowelRuns(word) - (IF SilentE(word) THEN 1 ELSE 0)
                     + ConsonantY(word) IN
    Max(1, count)

\* ------------------------------------------------------------ num_syllables

\* The inner loop: the number of vowel phonemes of one pronunciation.
VowelCount(pronunciation) ==
    Cardinality({i \in 1..Len(pronunciation) : IsVowelPhoneme(pronunciation[i])})

\* min(syllable_count)
MinOf(counts) ==
    CHOOSE m \in {counts[i] : i \in 1..Len(counts)} :
        \A i \in 1..Len(counts) : m <= counts[i]

\* num_syllables with 0, not 1, for a word without an entry.
NumSyllablesZeroDefault(d, word) ==
    LET got == Get(d, word) IN
    IF got = <<>> THEN 0
    ELSE MinOf([i \in 1..Len(got[1]) |-> VowelCount(got[1][i])])

\* num_syllables falling back on guess_syllables for a word without an entry.
NumSyllablesGuessFallback(d, word) ==
    LET got == Get(d, word) IN
    IF got = <<>> THEN GuessSyllables(word)
    ELSE MinOf([i \in 1..Len(got[1]) |-> VowelCount(got[1][i])])

NumSyllables(d, word) ==
    LET got == Get(d, word) IN
    IF got = <<>> THEN DefaultSyllables
    ELSE MinOf([i \in 1..Len(got[1]) |-> VowelCount(got[1][i])])

\* ------------------------------------------------------------- strip_sounds

\* The index (1-based) of the first vowel phoneme, 0 when there is none.
FirstVowel(pronunciation) ==
    LET vs == {i \in 1..Len(pronunciation) : IsVowelPhoneme(pronunciation[i])} IN
    IF vs = {} THEN 0 ELSE CHOOSE i \in vs : \A j \in vs : i <= j

RECURSIVE StripSounds(_)
StripSounds(prons) ==
    IF prons = <<>> THEN <<>>
    ELSE LET p == Head(prons)
             fv == FirstVowel(p) IN
         (IF fv = 0 THEN <<>> ELSE <<SliceFrom(p, fv - 1)>>)
             \o StripSounds(Tail(prons))

\* ------------------------------------------------------------------- rhymes

\* The loop body without its last branch: a shorter a never matches.
SuffixMatchNoElse(a, b) ==
    LET len_a == Len(a)
        len_b == Len(b) IN
    IF len_a = len_b THEN a = b
    ELSE IF len_a > len_b THEN SliceFrom(a, len_a - len_b) = b
    ELSE FALSE

\* The body of the double loop: one suffix of a against one suffix of b.
SuffixMatch(a, b) ==
    LET len_a == Len(a)
        len_b == Len(b) IN
    IF len_a = len_b THEN a = b
    ELSE IF len_a > len_b THEN SliceFrom(a, len_a - len_b) = b
    ELSE SliceFrom(b, len_b - len_a) = a

\* strip_sounds(None) iterates over None: TypeError, for either argument.
Rhymes(d, a, b) ==
    LET pronunciations_a == Get(d, a)
        pronunciations_b == Get(d, b) IN
    IF pronunciations_a = <<>> \/ pronunciations_b = <<>>
    THEN Raise("TypeError")
    ELSE LET list_a == StripSounds(pronunciations_a[1])
             list_b == StripSounds(pronunciations_b[1]) IN
         Return(\E i \in 1..Len(list_a) : \E j \in 1..Len(list_b) :
                    SuffixMatch(list_a[i], list_b[j]))

\* ------------------------------------------------------ remove_punctuations

\* The grave accent, U+0060, by name: the character cannot be written in a
\* string of this module.
Grave == "grave"

\* string.punctuation
Punctuation ==
    <<"!", "\"", "#", "$", "%", "&", "'", "(", ")", "*", "+", ",", "-", ".",
      "/", ":", ";", "<", "=", ">", "?", "@", "[", "\\", "]", "^", "_", Grave,
      "{", "|", "}", "~">>

BackQuotes == <<Grave, Grave>>

Quotes == <<"'", "'">>

\* The filter of the list comprehension.  word not in punctuation tests
\* whether word is a substring of the string punctuation.
KeepToken(word) ==
    /\ ~InStr(word, Punctuation)
    /\ word # BackQuotes
    /\ word # Quotes

RemovePunctuations(line_words) == SelectSeq(line_words, KeepToken)

\* ------------------------------------------------- the dictionaries explored

Phonemes == {<<"A", "H", "0">>, <<"T">>}

\* The pronunciations of 1..n phonemes.
Prons(n) == UNION {[1..k -> Phonemes] : k \in 1..n}

\* The entries whose pronunciations hold n phonemes or fewer in all; <<>> is
\* not an entry, it only ends the recursion.
RECURSIVE EntriesUpTo(_)
EntriesUpTo(n) ==
    {<<>>} \cup
    UNION {{<<p>> \o e : e \in EntriesUpTo(n - Len(p))} : p \in Prons(n)}

Entries == EntriesUpTo(MaxPhones) \ {<<>>}

\* Every dictionary that knows some of the words W.
DictsOver(W) == UNION {[S -> Entries] : S \in SUBSET W}

WordA == <<"a">>

WordB == <<"b">>

\* ------------------------------------------------------ rhymes: the harness

InitRhymes ==
    /\ pronunciations \in DictsOver({WordA, WordB})
    /\ input \in {WordA, WordB} \X {WordA, WordB}
    /\ pc = "rhymes"
    /\ output = <<>>

\* rhymes(a, b)
RhymesCall ==
    /\ pc = "rhymes"
    /\ output' = Append(output, Rhymes(pronunciations, input[1], input[2]))
    /\ pc' = "rhymes_swapped"
    /\ UNCHANGED <<pronunciations, input>>

\* rhymes(b, a)
RhymesSwappedCall ==
    /\ pc = "rhymes_swapped"
    /\ output' = Append(output, Rhymes(pronunciations, input[2], input[1]))
    /\ pc' = "done"
    /\ UNCHANGED <<pronunciations, input>>

NextRhymes == RhymesCall \/ RhymesSwappedCall

SpecRhymes == InitRhymes /\ [][NextRhymes]_vars

\* C1: rhymes(a, b) and rhymes(b, a) have the same outcome (the same value,
\* or the same exception), for every pair of words and every dictionary.
C1_RhymesSymmetric ==
    pc = "done" => output[1] = output[2]

\* Two different words, both known, rhyming only by a tail match of suffixes
\* of different lengths, asked both ways round.
C1_Witness ==
    /\ pc = "done"
    /\ input[1] # input[2]
    /\ output[1] = Return(TRUE)
    /\ {WordA, WordB} \subseteq DOMAIN pronunciations
    /\ \A i \in 1..Len(StripSounds(pronunciations[WordA])) :
           \A j \in 1..Len(StripSounds(pronunciations[WordB])) :
               Len(StripSounds(pronunciations[WordA])[i]) <
                   Len(StripSounds(pronunciations[WordB])[j])

\* C2: when at least one of the two words has no entry in the dictionary,
\* rhymes returns False and does not raise.
C2_UnknownWordReturnsFalse ==
    (Len(output) >= 1 /\ \E w \in {input[1], input[2]} : Get(pronunciations, w) = <<>>)
        => output[1] = Return(FALSE)

\* ------------------------------------------- syllable counting: the harness

Letters == {"a", "e", "l", "y", "B"}

Words == UNION {[1..n -> Letters] : n \in 1..MaxWordLen}

\* The dictionary's keys are lower-case words.
InitSyllables ==
    /\ input \in Words
    /\ pronunciations \in DictsOver(IF Lower(input) = input THEN {input} ELSE {})
    /\ pc = "num_syllables"
    /\ output = <<>>

\* num_syllables(word)
NumSyllablesCall ==
    /\ pc = "num_syllables"
    /\ output' = Append(output, NumSyllables(pronunciations, input))
    /\ pc' = "guess_syllables"
    /\ UNCHANGED <<pronunciations, input>>

\* guess_syllables(word), as main calls it after num_syllables
GuessSyllablesCall ==
    /\ pc = "guess_syllables"
    /\ output' = Append(output, GuessSyllables(input))
    /\ pc' = "done"
    /\ UNCHANGED <<pronunciations, input>>

NextSyllables == NumSyllablesCall \/ GuessSyllablesCall

SpecSyllables == InitSyllables /\ [][NextSyllables]_vars

HasVowel(pronunciation) ==
    \E i \in 1..Len(pronunciation) : IsVowelPhoneme(pronunciation[i])

\* C3, as claimed: num_syllables(word) >= 1 for every word, absent or present
\* with any pronunciations, a pronunciation without a vowel phoneme included.
C3_AtLeastOneSyllable ==
    Len(output) >= 1 => output[1] >= 1

\* C3, amended: num_syllables(word) >= 1 for a word absent from the
\* dictionary and for a word all of whose pronunciations hold a vowel
\* phoneme; it is 0 for a word with a pronunciation that holds none.
C3_AtLeastOneUnlessVowelless ==
    Len(output) >= 1 =>
        LET got == Get(pronunciations, input) IN
        /\ got = <<>> => output[1] >= 1
        /\ (got # <<>> /\ \A i \in 1..Len(got[1]) : HasVowel(got[1][i]))
               => output[1] >= 1
        /\ (got # <<>> /\ \E i \in 1..Len(got[1]) : ~HasVowel(got[1][i]))
               => output[1] = 0

\* A known word with one pronunciation that has vowels and one that has none.
C3_Witness ==
    /\ Len(output) >= 1
    /\ input \in DOMAIN pronunciations
    /\ \E i \in 1..Len(pronunciations[input]) : HasVowel(pronunciations[input][i])
    /\ \E i \in 1..Len(pronunciations[input]) : ~HasVowel(pronunciations[input][i])
    /\ output[1] = 0

\* C4, as claimed: for a word absent from the dictionary, num_syllables(word)
\* is guess_syllables(word).
C4_AbsentWordGuessed ==
    (pc = "done" /\ Get(pronunciations, input) = <<>>) => output[1] = output[2]

\* C4, amended: for a word absent from the dictionary, num_syllables(word)
\* is 1, whatever guess_syllables(word) is.
C4_AbsentWordCountsOne ==
    (pc = "done" /\ Get(pronunciations, input) = <<>>)
        => output[1] = DefaultSyllables

\* An unknown word for which the heuristic counts two syllables.
C4_Witness ==
    /\ pc = "done"
    /\ Get(pronunciations, input) = <<>>
    /\ output[1] = DefaultSyllables
    /\ output[2] = 2

\* ---------------------------------------- remove_punctuations: the harness

Period == <<".">>

Ellipsis == <<".", ".", ".">>

Dashes == <<"-", "-">>

Parens == <<"(", ")">>

Cat == <<"c", "a", "t">>

Genitive == <<"'", "s">>

Tokens == {Period, Ellipsis, Dashes, Parens, BackQuotes, Quotes, Cat, Genitive}

InitPunctuations ==
    /\ input \in UNION {[1..n -> Tokens] : n \in 0..MaxTokens}
    /\ pronunciations = <<>>
    /\ pc = "remove_punctuations"
    /\ output = <<>>

\* remove_punctuations(line_words)
RemovePunctuationsCall ==
    /\ pc = "remove_punctuations"
    /\ output' = Append(output, RemovePunctuations(input))
    /\ pc' = "done"
    /\ UNCHANGED <<pronunciations, input>>

NextPunctuations == RemovePunctuationsCall

SpecPunctuations == InitPunctuations /\ [][NextPunctuations]_vars

\* A token made only of punctuation characters, of any length.
PurePunctuation(word) ==
    \/ word \in {BackQuotes, Quotes}
    \/ /\ word # <<>>
       /\ \A i \in 1..Len(word) : \E k \in 1..Len(Punctuation) : word[i] = Punctuation[k]

IsWordToken(word) == ~PurePunctuation(word)

\* C9: remove_punctuations drops exactly the punctuation-only tokens, of one
\* character or of several, keeps every other token in its order, and so
\* never leaves a punctuation-only token as the last element.
C9_ExactlyPunctuationRemoved ==
    pc = "done" =>
        /\ output[1] = SelectSeq(input, IsWordToken)
        /\ output[1] # <<>> => ~PurePunctuation(output[1][Len(output[1])])

\* ---------------------------------------------------------------- tokenizing

\* A line of text.splitlines() is the sequence of its items: the runs of blank
\* characters and the tokens nltk's word_tokenize cuts it into.
Space == <<" ">>

IsBlankItem(item) == \A i \in 1..Len(item) : item[i] \in {" ", "\t"}

IsTokenItem(item) == ~IsBlankItem(item)

\* line.strip(): the line without its leading and trailing blank items.
Strip(line) ==
    LET ts == {i \in 1..Len(line) : IsTokenItem(line[i])} IN
    IF ts = {} THEN <<>>
    ELSE SubSeq(line, CHOOSE i \in ts : \A j \in ts : i <= j,
                      CHOOSE i \in ts : \A j \in ts : i >= j)

\* line.strip() != ''
NotBlank(line) == Strip(line) # <<>>

\* word_tokenize(line): the tokens, without the blanks between them.
WordTokenize(line) == SelectSeq(line, IsTokenItem)

\* line_words = remove_punctuations(word_tokenize(line))
LineWords(line) == RemovePunctuations(WordTokenize(line))

\* ------------------------------------------------- get_line_syllable_count

RECURSIVE GetLineSyllableCount(_, _)
GetLineSyllableCount(d, line_words) ==
    IF line_words = <<>> THEN 0
    ELSE NumSyllables(d, Head(line_words))
             + GetLineSyllableCount(d, Tail(line_words))

\* -------------------------------------------------------------- is_limerick

\* The line-count test with < for !=: six lines pass it.
LineCountFailsBelow(num_of_lines) == num_of_lines < NumLines

\* if num_of_lines != 5: return False
LineCountFails(num_of_lines) == num_of_lines # NumLines

Min(a, b) == IF a <= b THEN a ELSE b

Abs(n) == IF n < 0 THEN -n ELSE n

\* The checks on syllable_count without the one on the B lines.
SyllableChecksNoBSpread(syllable_count) ==
    /\ ~(\E i \in 1..Len(syllable_count) : syllable_count[i] < MinSyllables)
    /\ LET a_syllable_max ==
               Max(syllable_count[1], Max(syllable_count[2], syllable_count[5]))
           a_syllable_min ==
               Min(syllable_count[1], Min(syllable_count[2], syllable_count[5])) IN
       ~((a_syllable_max - a_syllable_min) > MaxSpread)

\* The three checks on syllable_count that end is_limerick.
SyllableChecks(syllable_count) ==
    /\ ~(\E i \in 1..Len(syllable_count) : syllable_count[i] < MinSyllables)
    /\ LET a_syllable_max ==
               Max(syllable_count[1], Max(syllable_count[2], syllable_count[5]))
           a_syllable_min ==
               Min(syllable_count[1], Min(syllable_count[2], syllable_count[5])) IN
       ~((a_syllable_max - a_syllable_min) > MaxSpread)
    /\ ~(Abs(syllable_count[3] - syllable_count[4]) > MaxSpread)

\* line_words[len(line_words)-1] is line_words[-1] on an empty list: IndexError.
IsLimerick(d, text) ==
    LET lines == SelectSeq(text, NotBlank) IN
    IF LineCountFails(Len(lines)) THEN Return(FALSE)
    ELSE
    LET line1_words == LineWords(lines[1])
        line2_words == LineWords(lines[2])
        line3_words == LineWords(lines[3])
        line4_words == LineWords(lines[4])
        line5_words == LineWords(lines[5])
        last1 == line1_words[Len(line1_words)]
        last2 == line2_words[Len(line2_words)]
        last3 == line3_words[Len(line3_words)]
        last4 == line4_words[Len(line4_words)]
        last5 == line5_words[Len(line5_words)]
        rhymes12 == Rhymes(d, last1, last2)
        rhymes34 == Rhymes(d, last3, last4)
        rhymes15 == Rhymes(d, last1, last5)
        rhymes25 == Rhymes(d, last2, last5)
        rhymes13 == Rhymes(d, last1, last3)
        syllable_count ==
            <<GetLineSyllableCount(d, line1_words),
              GetLineSyllableCount(d, line2_words),
              GetLineSyllableCount(d, line3_words),
              GetLineSyllableCount(d, line4_words),
              GetLineSyllableCount(d, line5_words)>> IN
    \* Check if first two lines rhyme
    IF line1_words = <<>> \/ line2_words = <<>> THEN Raise("IndexError")
    ELSE IF rhymes12.exc # "" THEN rhymes12
    ELSE IF ~rhymes12.val THEN Return(FALSE)
    \* Check if third and fourth lines rhyme
    ELSE IF line3_words = <<>> \/ line4_words = <<>> THEN Raise("IndexError")
    ELSE IF rhymes34.exc # "" THEN rhymes34
    ELSE IF ~rhymes34.val THEN Return(FALSE)
    \* Check if first and fifth or second and fifth lines rhyme
    ELSE IF line5_words = <<>> THEN Raise("IndexError")
    ELSE IF rhymes15.exc # "" THEN rhymes15
    ELSE IF ~rhymes15.val /\ rhymes25.exc # "" THEN rhymes25
    ELSE IF ~rhymes15.val /\ ~rhymes25.val THEN Return(FALSE)
    \* Check that first and third lines do not rhyme
    ELSE IF rhymes13.exc # "" THEN rhymes13
    ELSE IF rhymes13.val THEN Return(FALSE)
    ELSE Return(SyllableChecks(syllable_count))

\* ------------------------------------------------- is_limerick: the harness

\* A few entries in the format of the CMU pronouncing dictionary.
AH0 == <<"A", "H", "0">>

AE1 == <<"A", "E", "1">>

AY1 == <<"A", "Y", "1">>

EY1 == <<"E", "Y", "1">>

ER0 == <<"E", "R", "0">>

ER1 == <<"E", "R", "1">>

Banana == <<"b", "a", "n", "a", "n", "a">>

Liar == <<"l", "i", "a", "r">>

Her == <<"h", "e", "r">>

Payer == <<"p", "a", "y", "e", "r">>

Blorpx == <<"b", "l", "o", "r", "p", "x">>

SampleDict ==
    [w \in {Banana, Liar, Her, Payer} |->
        CASE w = Banana -> <<<<<<"B">>, AH0, <<"N">>, AE1, <<"N">>, AH0>>>>
          [] w = Liar -> <<<<<<"L">>, AY1, ER0>>>>
          [] w = Her -> <<<<<<"H", "H">>, ER1>>, <<<<"H", "H">>, ER0>>>>
          [] w = Payer -> <<<<<<"P">>, EY1, ER0>>>>]

\* n filler words, each followed by a blank.
Fill(n) == [i \in 1..(2 * n) |-> IF i % 2 = 1 THEN Banana ELSE Space]

\* "banana banana liar."
PoemLine(n, last_word) == Fill(n) \o <<last_word, Period>>

\* "her.": a line of one syllable.
ShortLine == <<Her, Period>>

\* "banana blorpx": a line whose last word the dictionary does not know.
UnknownLine == <<Banana, Space, Blorpx>>

\* " ." : a line that is not blank and holds no word.
PunctuationLine == <<Space, Period>>

PoemLines ==
    {PoemLine(n, w) : n \in 1..MaxFill, w \in {Liar, Her, Payer}}
        \cup {ShortLine, UnknownLine, PunctuationLine}

\* The lines of the texts that try the line count: blank ones and others.
GateLines == {<<>>, <<Space>>, PoemLine(1, Liar), PunctuationLine}

InitLimerick ==
    /\ \/ input \in [1..NumLines -> PoemLines]
       \/ input \in UNION {[1..n -> GateLines] : n \in 0..MaxLines}
    /\ pronunciations = SampleDict
    /\ pc = "is_limerick"
    /\ output = <<>>

\* is_limerick(text)
IsLimerickCall ==
    /\ pc = "is_limerick"
    /\ output' = Append(output, IsLimerick(pronunciations, input))
    /\ pc' = "done"
    /\ UNCHANGED <<pronunciations, input>>

NextLimerick == IsLimerickCall

SpecLimerick == InitLimerick /\ [][NextLimerick]_vars

\* ------------------------------------------------ is_limerick: the claims

\* The lines of the text that hold a character other than a blank.
NonBlank == SelectSeq(input, LAMBDA line : \E i \in 1..Len(line) : IsTokenItem(line[i]))

\* The last word of the k-th non-blank line, and the line's syllable total.
LastOf(k) == LET ws == LineWords(NonBlank[k]) IN ws[Len(ws)]

Total(k) == GetLineSyllableCount(pronunciations, LineWords(NonBlank[k]))

RhymeOf(j, k) == Rhymes(pronunciations, LastOf(j), LastOf(k)).val

ALines == {1, 2, 5}

BLines == {3, 4}

\* C5: a 5-line poem with a non-blank line that has no token left after the
\* punctuation filter makes is_limerick return False, never raise.
C5_EmptyLineReturnsFalse ==
    (pc = "done" /\ Len(NonBlank) = NumLines
        /\ \E k \in 1..NumLines : LineWords(NonBlank[k]) = <<>>)
        => output[1] = Return(FALSE)

\* C6: when is_limerick returns True, no last word of an A line (1, 2, 5)
\* rhymes with the last word of a B line (3, 4).
C6_ALinesDoNotRhymeWithBLines ==
    (pc = "done" /\ output[1] = Return(TRUE))
        => \A a \in ALines : \A b \in BLines : ~RhymeOf(a, b)

\* C7: when is_limerick returns True, each B line has strictly fewer
\* syllables than each A line.
C7_BLinesShorterThanALines ==
    (pc = "done" /\ output[1] = Return(TRUE))
        => \A a \in ALines : \A b \in BLines : Total(b) < Total(a)

\* C8: a text whose number of non-blank lines is not 5 makes is_limerick
\* return False, without raising, whatever its lines hold.
C8_WrongLineCountReturnsFalse ==
    (pc = "done" /\ Len(NonBlank) # NumLines) => output[1] = Return(FALSE)

\* Six non-blank lines among blank ones, the first of them without a word.
C8_Witness ==
    /\ pc = "done"
    /\ Len(NonBlank) = NumLines + 1
    /\ Len(input) > Len(NonBlank)
    /\ LineWords(NonBlank[1]) = <<>>
    /\ output[1] = Return(FALSE)

\* The lines of a text C10 is about: five non-blank lines, each with a token
\* left after the filter and a last word the dictionary knows.
WellFormed ==
    /\ Len(NonBlank) = NumLines
    /\ \A k \in 1..NumLines :
           /\ LineWords(NonBlank[k]) # <<>>
           /\ LastOf(k) \in DOMAIN pronunciations

MaxTotal(S) == CHOOSE m \in {Total(k) : k \in S} : \A k \in S : Total(k) <= m

MinTotal(S) == CHOOSE m \in {Total(k) : k \in S} : \A k \in S : m <= Total(k)

====
